---- MODULE Spec2Model ----
(***************************************************************************)
(* Model of pubmed_scraping: the two-stage fetch pipeline (pipeline.py),   *)
(* the query parameter state (query.py) and the schema-driven extraction   *)
(* generators (soups.py).                                                  *)
(*                                                                         *)
(* Times are integer milliseconds on the monotonic clock; the clock is     *)
(* kept relative to prev_time (elapsed = time.monotonic() - prev_time).    *)
(* Query fields are stored by the code as str(int) and read back with      *)
(* int(); that pair is exact on integers and the fields are kept as        *)
(* integers here.                                                          *)
(***************************************************************************)
EXTENDS Integers, Sequences, FiniteSets, TLC

(* ------------------------- program constants --------------------------- *)
SUMMARY_RETMAX == 500
UID_RETMAX == 100000
\* 0.334 s, the literal of the pacing test and of the sleep argument
MIN_INTERVAL == 334
\* the literal 200 of UIDQuery.req_function
POST_THRESHOLD == 200
\* the literal 200 of Pipeline._request
HTTP_OK == 200

(* ------------------------------ bounds --------------------------------- *)
\* largest advance of the clock between two adjacent reads of it
MaxReadTick == 1
\* largest overshoot of time.sleep beyond the requested duration
MaxOvershoot == 1
\* largest number of soups saved one after the other
MaxSaves == 4

\* largest number of top-level children of a record document
MaxArticles == 2

(* --------------------------- input domains ----------------------------- *)
\* desired record counts n handed to Pipeline.request
NValues == {1, 50, SUMMARY_RETMAX, SUMMARY_RETMAX + 1, UID_RETMAX, UID_RETMAX + 1}
\* number of records on the server that match the keyword query
AvailValues == {0, 30, SUMMARY_RETMAX + 1, 2 * UID_RETMAX}
\* save_folder argument: the default '' or a folder name
SaveFolders == {"", "out"}
\* HTTP status codes a response may carry
Statuses == {HTTP_OK, 404, 503}
\* time a request takes from the granted slot to the next pacing test
Durations == {0, 200, MIN_INTERVAL, 400}
ReadTicks == 0..MaxReadTick
Overshoots == 0..MaxOvershoot
\* values handed to the ret_max / ret_start setters by a direct caller
SetterValues ==
    {-1, 0, 1, POST_THRESHOLD - 1, POST_THRESHOLD, SUMMARY_RETMAX,
     SUMMARY_RETMAX + 1, UID_RETMAX, UID_RETMAX + 1}
\* numbers of identifiers loaded into a UIDQuery by a direct caller
TermCounts == {0, 2, POST_THRESHOLD - 1, POST_THRESHOLD, POST_THRESHOLD + 1}
\* numbers of identifiers or records in a response that is saved
SoupSizes == {1, 2, SUMMARY_RETMAX}

VARIABLES
    \* ---- query.py: class-level parameter dictionaries and search terms
    kw_fields,        \* KeyWordQuery.fields: [retmax, retstart, retstart_py]
                      \* (retstart_py: the Python type of fields['retstart'])
    uid_fields,       \* UIDQuery.fields: [retmax, retstart, retstart_py]
    uid_loaded,       \* UIDQuery.search_terms has been set by load()
    uid_terms,        \* number of identifiers in UIDQuery.search_terms
    \* ---- pipeline.py: Pipeline.request
    pc,               \* "idle","check","sleep","grant","request","done","raised"
    stage,            \* "outer" (line 73 loop) or "inner" (line 85 loop)
    n,                \* argument n
    save_folder,      \* argument save_folder
    i, j,             \* loop variables
    outerPages,       \* length of the range of line 73
    innerPages,       \* length of the range of line 85
    elapsed,          \* time.monotonic() - prev_time
    err,              \* the exception that ended the run
    \* ---- environment and observation
    available,        \* records on the server matching the keyword query
    lastRequest,      \* the request issued last
    lastStatus,       \* status code of the response to it
    reqCount,         \* requests issued
    outerCount,       \* identifier-search requests issued
    innerCount,       \* record-retrieval requests issued for the current batch
    slots,            \* assignments prev_time = time.monotonic() after line 71
    lastGap,          \* new prev_time - old prev_time at the slot just granted
                      \* (0 once its request is issued)
    lastSleepArg,     \* argument of time.sleep in the current pacing step
                      \* (-1: time.sleep not called in it)
    idsTotal,         \* identifiers received over the run
    recordsTotal,     \* article summaries received over the run
    saveCalls,        \* calls of UIDSoup.save and SummarySoup.save
    store,            \* datasets in uids.h5 and pubmed_summary.h5:
                      \* [uids, summaries], NoFile before the file exists
    uid_from,         \* outer page whose identifiers the UIDQuery holds
                      \* (-1: none)
    \* ---- soups.py: a SummarySoup and two of its generator properties
    doc,              \* SummarySoup.children, in document order
    single_pos,       \* child the single_generator has consumed up to
    single_out,       \* values the single_generator has yielded
    single_state,     \* "running", "exhausted" or the exception raised
    nested_pos,       \* child the nested_generator has consumed up to
    nested_out,       \* values the nested_generator has yielded
    nested_state,     \* "running", "exhausted" or the exception raised
    \* ---- query.py: search terms by content, load and save
    kw_search_terms,  \* KeyWordQuery.search_terms: [items, mindate, maxdate]
    uid_search_terms, \* UIDQuery.search_terms: a list of str
    kw_file,          \* the file the KeyWordQuery was saved to
    uid_file,         \* the file the UIDQuery was saved to
    kw_saved,         \* KeyWordQuery.search_terms when kw_file was written
    uid_saved,        \* UIDQuery.search_terms when uid_file was written
    lastArg,          \* argument of the last load(terms=...)
    lastOp,           \* the last call of load or save: [query, op, exc]
    \* ---- query.py: instances of KeyWordQuery
    kw_instances,     \* instances constructed
    api_key,          \* api_key of every instance constructed
    actor             \* the instance last constructed or assigned to

pipeVars ==
    <<pc, stage, n, save_folder, i, j, outerPages, innerPages, elapsed, err,
      available, lastRequest, lastStatus, reqCount, outerCount, innerCount,
      slots, lastGap, lastSleepArg, idsTotal, recordsTotal, saveCalls,
      store, uid_from>>
queryVars == <<kw_fields, uid_fields, uid_loaded, uid_terms>>
soupVars ==
    <<doc, single_pos, single_out, single_state, nested_pos, nested_out,
      nested_state>>
storeVars ==
    <<kw_search_terms, uid_search_terms, kw_file, uid_file, kw_saved,
      uid_saved, lastArg, lastOp>>
instVars == <<kw_instances, api_key, actor>>

(* ------------------------------ helpers -------------------------------- *)
Min(a, b) == IF a <= b THEN a ELSE b
Max(a, b) == IF a >= b THEN a ELSE b
\* ceiling of a / b for a >= 0, b >= 1, written without floor division by -1
CeilDiv(a, b) == IF a % b = 0 THEN a \div b ELSE (a \div b) + 1

NoRequest == [stage |-> "none", retstart |-> 0, retmax |-> 0,
              method |-> "none", ids |-> 0]
NoErr == [kind |-> "none", request |-> NoRequest, response |-> 0]

(* ------------------------------ query.py ------------------------------- *)
\* KeyWordQuery.ret_max setter: the value stored for val
KeyWordQuery_ret_max(val) == IF val >= UID_RETMAX THEN UID_RETMAX ELSE val

\* UIDQuery.ret_max setter: the value stored for val
UIDQuery_ret_max(val) == IF val >= SUMMARY_RETMAX THEN SUMMARY_RETMAX ELSE val

\* UIDQuery.req_function, which reads self.ret_max
UIDQuery_req_function(fields) ==
    IF fields.retmax >= POST_THRESHOLD THEN "POST" ELSE "GET"

\* KeyWordQuery.req_function
KeyWordQuery_req_function == "GET"

(* ----------------------------- pipeline.py ----------------------------- *)
\* Pipeline._n_or_max
n_or_max(nn, max_) == IF nn >= max_ THEN max_ ELSE nn

\* len(range(k))
RangeLen(k) == Max(k, 0)

\* off by one: n // UID_RETMAX + 1
OuterRange_OffByOne(nn) == RangeLen((nn \div UID_RETMAX) + 1)

\* the range of line 73
OuterRange(nn) == RangeLen(((nn - 1) \div UID_RETMAX) + 1)

\* the range of line 85
InnerRange(kw_ret_max) == RangeLen(((kw_ret_max - 1) \div SUMMARY_RETMAX) + 1)

\* a pacing test against a shorter interval
NeedsWait_Short(e) == ~(e > 200)

\* the pacing test of lines 75 and 87: not (elapsed > 0.334)
NeedsWait(e) == ~(e > MIN_INTERVAL)

\* a cursor one page ahead
Cursor_Ahead(k, size) == (k + 1) * size

\* the cursor of lines 79 and 91: ret_start = i*ret_max, j*ret_max
Cursor(k, size) == k * size

\* a file h5py.File(..., 'w') has not created
NoFile == -1

\* UIDSoup.save, up to the exception: uids.h5 is opened with mode 'w' and
\* the dataset uid is made of the k identifiers of the soup
UIDSoup_save(st, k) == [st EXCEPT !.uids = k]

\* SummarySoup.save: pubmed_summary.h5 is opened with mode 'w' and one
\* group is made for each of the k records of the soup
SummarySoup_save(st, k) == [st EXCEPT !.summaries = k]

\* the argument of time.sleep in lines 77 and 89
SleepArg(e) == MIN_INTERVAL - e

\* a status test that lets client errors through
IsFailure_ServerOnly(status) == status >= 500

\* the status test of Pipeline._request, line 41
IsFailure(status) == ~(status = HTTP_OK)

\* items the server returns for a page: at most retmax, from retstart on
ServerPage(total, retstart, retmax) ==
    Min(Max(retmax, 0), Max(total - retstart, 0))

(* ------------------------------- soups.py ------------------------------ *)
\* An element is modelled by what its .string gives: its text when the
\* element holds exactly one text node, NoString (None) when the element is
\* empty or holds inline markup. Every pubmedarticle tag carries a
\* medlinecitation with a status attribute, as the PubMed DTD requires.
NoString == "<None>"

\* the child names of the 'authors' rule of summary_kwargs
AuthorKeys == {"lastname", "forename", "affiliation"}

\* an author tag: for each child name, the .string of its children so named
Author(l, f, a) == [lastname |-> l, forename |-> f, affiliation |-> a]
Doe == Author(<<"Doe">>, <<"John">>, <<>>)
Smith == Author(<<"Smith">>, <<"Jane">>, <<>>)
Lee == Author(<<"Lee">>, <<"Ann">>, <<"MIT">>)
Roe == Author(<<"Roe">>, <<NoString>>, <<>>)

\* author tags of an article, in document order
AuthorLists == {<<>>, <<Doe, Smith>>, <<Lee, Doe>>, <<Roe>>}
\* the .string of the elements article.find_all(**tag_name) returns, in
\* document order, for the tag_name of one single-lookup field
MatchLists == {<<>>, <<"Aim">>, <<"Aim", "Result">>, <<NoString>>}
\* status attribute of medlinecitation
StatusValues == {"MEDLINE", "In-Process"}

StringNode ==
    [kind |-> "NavigableString", status |-> "", found |-> <<>>,
     author |-> <<>>]
Children ==
    {[kind |-> "Tag", status |-> st, found |-> m, author |-> au] :
        st \in StatusValues, m \in MatchLists, au \in AuthorLists}
    \cup {StringNode}
Docs == UNION {[1..k -> Children] : k \in 0..MaxArticles}

\* a filter that lets every tag through
Valid_AnyTag(child) == child.kind = "Tag"

\* the test of SummarySoup.__iter__
Valid(child) == child.kind = "Tag" /\ child.status = "MEDLINE"

\* the child SummarySoup.__iter__ yields next after child pos; 0: none left
NextArticle(d, pos) ==
    LET S == {k \in (pos + 1)..Len(d) : Valid(d[k])}
    IN IF S = {} THEN 0 ELSE CHOOSE k \in S : \A m \in S : k <= m

\* ' '.join(li)
RECURSIVE Join(_)
Join(li) ==
    IF Len(li) = 0 THEN ""
    ELSE IF Len(li) = 1 THEN li[1]
    ELSE li[1] \o " " \o Join(Tail(li))

\* some element.string of the list is None
HasNoString(li) == \E k \in 1..Len(li) : li[k] = NoString

\* single_generator: ' '.join over a None raises TypeError, which the
\* except AttributeError clause does not catch
SingleRaises(article) == HasNoString(article.found)

\* single_generator: the value yielded for an article
SingleValue(article) ==
    IF article.found = <<>> THEN "" ELSE Join(article.found)

\* [c.string for contents in article(name) for c in contents(key)]
RECURSIVE Column(_, _)
Column(authors, key) ==
    IF authors = <<>> THEN <<>>
    ELSE Head(authors)[key] \o Column(Tail(authors), key)

\* nested_generator: None.encode raises AttributeError
NestedRaises(article) ==
    \E a \in 1..Len(article.author), key \in AuthorKeys :
        HasNoString(article.author[a][key])

\* a comprehension that walks the parent tags last to first
RECURSIVE Column_Reversed(_, _)
Column_Reversed(authors, key) ==
    IF authors = <<>> THEN <<>>
    ELSE Column_Reversed(Tail(authors), key) \o Head(authors)[key]
NestedValue_Reversed(article) ==
    [py |-> "dict",
     val |-> [key \in AuthorKeys |-> Column_Reversed(article.author, key)]]

\* nested_generator: the value yielded for an article, a dict
NestedValue(article) ==
    [py |-> "dict",
     val |-> [key \in AuthorKeys |-> Column(article.author, key)]]

\* a SummarySoup over the children d, no generator advanced yet
SoupStart(d) ==
    /\ doc = d
    /\ single_pos = 0
    /\ single_out = <<>>
    /\ single_state = "running"
    /\ nested_pos = 0
    /\ nested_out = <<>>
    /\ nested_state = "running"

(* ------------- query.py: search terms, their saved form ---------------- *)
\* A bytes or str value is the sequence of its characters over an alphabet
\* of symbols: the separators " ", "," and "\n", and words that hold no
\* separator. A Python value carries its type in the field py.
Bytes(chars) == [py |-> "bytes", val |-> chars]
Str(chars) == [py |-> "str", val |-> chars]
PyList(items) == [py |-> "list", val |-> items]

\* words on which str.isdigit is true
DigitWords == {"28852740", "29350911", "2935", "7", "1800", "1990", "2000", "2100"}

\* the value an operation returns, or the exception it raises
Ok(v) == [exc |-> "", val |-> v]
Raise(e) == [exc |-> e, val |-> <<>>]

RECURSIVE SplitAt(_, _, _, _)
SplitAt(chars, sep, cur, done) ==
    IF chars = <<>> THEN Append(done, cur)
    ELSE IF Head(chars) = sep
      THEN SplitAt(Tail(chars), sep, <<>>, Append(done, cur))
      ELSE SplitAt(Tail(chars), sep, Append(cur, Head(chars)), done)

\* bytes.split(sep)
bytes_split(chars, sep) == SplitAt(chars, sep, <<>>, <<>>)

RECURSIVE str_join(_, _)
\* sep.join(pieces)
str_join(sep, pieces) ==
    IF pieces = <<>> THEN <<>>
    ELSE IF Len(pieces) = 1 THEN pieces[1]
    ELSE pieces[1] \o <<sep>> \o str_join(sep, Tail(pieces))

\* x.replace(' ', '')
RemoveSpaces(chars) == SelectSeq(chars, LAMBDA c : c # " ")

\* str.isdigit: false on the empty string
isdigit(chars) ==
    /\ chars # <<>>
    /\ \A k \in 1..Len(chars) : chars[k] \in DigitWords

\* a filter that keeps the spaces of its inputs
UIDQuery_SearchTerms_KeepSpaces(terms) ==
    IF \E k \in 1..Len(terms) : terms[k].py # "bytes"
      THEN Raise("AttributeError")
      ELSE Ok(SelectSeq([k \in 1..Len(terms) |-> terms[k].val], isdigit))

\* UIDQuery._SearchTerms.__init__ on a list: decode every item, remove its
\* spaces, keep the items on which isdigit is true; an item without decode
\* (a str, a list) raises AttributeError
UIDQuery_SearchTerms(terms) ==
    IF \E k \in 1..Len(terms) : terms[k].py # "bytes"
      THEN Raise("AttributeError")
      ELSE Ok(SelectSeq([k \in 1..Len(terms) |-> RemoveSpaces(terms[k].val)],
                        isdigit))

\* UIDQuery._SearchTerms.to_url
UIDQuery_to_url(ids) == Str(str_join(",", ids))

\* UIDQuery._SearchTerms.saveable_format
UIDQuery_saveable_format(ids) == Bytes(str_join(",", ids))

\* 'mindate', 'maxdate' and the keys of kw_conversion that a decoded bytes
\* can equal
Recognized ==
    {<<>>, <<" ">>, <<"title">>, <<"author">>, <<"journal">>,
     <<"affiliation">>, <<"language">>, <<"mindate">>, <<"maxdate">>}

\* a dict as the sequence of its entries [k, v] in insertion order
DictHas(d, key) == \E m \in 1..Len(d) : d[m].k = key
DictGet(d, key) == d[CHOOSE m \in 1..Len(d) : d[m].k = key].v
DictDel(d, key) == SelectSeq(d, LAMBDA e : e.k # key)
DictSet(d, key, value) ==
    IF DictHas(d, key)
      THEN [m \in 1..Len(d) |->
              IF d[m].k = key THEN [k |-> key, v |-> value] ELSE d[m]]
      ELSE Append(d, [k |-> key, v |-> value])

RECURSIVE DictOf(_, _)
\* the dict comprehension of lines 162-164, over rows whose items decode
DictOf(rows, d) ==
    IF rows = <<>> THEN d
    ELSE LET li == Head(rows)
             key == li[1].val
         IN DictOf(Tail(rows),
                   IF key \in Recognized
                     THEN DictSet(d, key,
                                  [m \in 1..(Len(li) - 1) |-> li[m + 1].val])
                     ELSE d)

\* a row on which the comprehension raises: li[0] has no decode, or the
\* field is recognized and a value has no decode
RowRaises(li) ==
    \/ li[1].py # "bytes"
    \/ /\ li[1].val \in Recognized
       /\ \E m \in 2..Len(li) : li[m].py # "bytes"

\* a KeyWordQuery._SearchTerms: the dict and its two attributes
Terms(items, mindate, maxdate) ==
    [set |-> TRUE, items |-> items, mindate |-> mindate, maxdate |-> maxdate]

\* a query on which load has not set search_terms
NoTerms == [set |-> FALSE, items |-> <<>>, mindate |-> <<>>, maxdate |-> <<>>]

\* KeyWordQuery._SearchTerms.__init__
KeyWordQuery_SearchTerms(arg) ==
    IF \E r \in 1..Len(arg) : RowRaises(arg[r])
      THEN Raise("AttributeError")
      ELSE LET d == DictOf(arg, <<>>)
               hasMin == DictHas(d, <<"mindate">>)
               hasMax == DictHas(d, <<"maxdate">>)
           IN IF \/ hasMin /\ DictGet(d, <<"mindate">>) = <<>>
                 \/ hasMax /\ DictGet(d, <<"maxdate">>) = <<>>
                THEN Raise("IndexError")
                ELSE Ok(Terms(DictDel(DictDel(d, <<"mindate">>), <<"maxdate">>),
                              IF hasMin THEN DictGet(d, <<"mindate">>)[1]
                                        ELSE <<"1800">>,
                              IF hasMax THEN DictGet(d, <<"maxdate">>)[1]
                                        ELSE <<"2100">>))

\* one line of saveable_format: k + ',' + ','.join(v), with ' ,' for ''
FieldLine(e) ==
    (IF e.k = <<>> THEN <<" ", ",">> ELSE e.k \o <<",">>) \o str_join(",", e.v)

\* KeyWordQuery._SearchTerms.saveable_format
KeyWordQuery_saveable_format(t) ==
    Bytes(str_join("\n",
                   [m \in 1..Len(t.items) |-> FieldLine(t.items[m])]
                   \o << <<"mindate", ",">> \o t.mindate,
                         <<"maxdate", ",">> \o t.maxdate >>))

\* line 124: [line.split(b',') for line in read.split(b'\n')]
ReadRows(read) ==
    LET lines == bytes_split(read, "\n") IN
    [r \in 1..Len(lines) |->
        LET cells == bytes_split(lines[r], ",") IN
        [c \in 1..Len(cells) |-> Bytes(cells[c])]]

\* the file at a path: form "none" until it is opened for writing; written
\* is false when the write after open(path, 'wb') did not happen
NoAttrs == [retmax |-> 0, retstart |-> 0, has_retstart |-> FALSE]
NoPath == [form |-> "none", written |-> FALSE, data |-> <<>>, attrs |-> NoAttrs]
DataFile(form, written, data) ==
    [form |-> form, written |-> written, data |-> data, attrs |-> NoAttrs]

\* the form Query.save and Query.load choose for an extension
FormOf(ext) ==
    IF ext = "txt" THEN "txt"
    ELSE IF ext \in {"pickle", "pkl"} THEN "pickle"
    ELSE IF ext \in {"h5", "hd5", "hf5"} THEN "h5"
    ELSE "none"

\* no call of load or save yet
NoOp == [query |-> "none", op |-> "none", exc |-> ""]

\* arguments of KeyWordQuery.load(terms=...)
KwDefault == << <<Bytes(<<>>), Bytes(<<"shteyn">>)>> >>
KwArgs ==
    { KwDefault,
      << <<Bytes(<<" ">>), Bytes(<<"shteyn">>)>> >>,
      << <<Bytes(<<"author">>), Bytes(<<"Doe">>), Bytes(<<"Roe">>)>>,
         <<Bytes(<<"title">>), Bytes(<<"cell">>)>> >>,
      << <<Bytes(<<"affiliation">>), Bytes(<<"Dept", ",", " ", "MIT">>)>> >>,
      << <<Bytes(<<"author">>), Bytes(<<"Doe">>)>>,
         <<Bytes(<<"mindate">>), Bytes(<<"1990">>)>>,
         <<Bytes(<<"maxdate">>), Bytes(<<"2000">>)>> >>,
      << <<Bytes(<<"colour">>), Bytes(<<"red">>)>>,
         <<Bytes(<<"author">>), Bytes(<<"Doe">>)>> >>,
      << <<Bytes(<<"colour">>), Bytes(<<"red">>)>> >>,
      << <<Bytes(<<"journal">>)>> >>,
      << <<Str(<<>>), Str(<<"shteyn">>)>> >> }

\* arguments of UIDQuery.load(terms=...)
UidArgs ==
    { <<>>,
      <<Bytes(<<"28852740">>), Bytes(<<"29350911">>)>>,
      <<Bytes(<<" ", "28852740">>), Bytes(<<"2935", " ", "7">>),
        Bytes(<<"7", " ", "7">>)>>,
      <<Bytes(<<"29350911">>), Bytes(<<"abc">>), Bytes(<<"29350911">>)>>,
      <<Bytes(<<>>), Bytes(<<"7", "a">>), Bytes(<<" ">>), Bytes(<<"7">>)>> }

\* extensions of the paths given to save
KwExtensions == {"txt", "pkl", "h5", "csv"}
UidExtensions == {"txt", "pkl", "csv"}

\* values assigned to ret_start between saves
StoreSetterValues == {SUMMARY_RETMAX}

\* Pipeline.__init__ or a bare constructor: search terms t, nothing saved
StoreStart(t) ==
    /\ kw_search_terms = t
    /\ uid_search_terms = <<>>
    /\ kw_file = NoPath
    /\ uid_file = NoPath
    /\ kw_saved = NoTerms
    /\ uid_saved = <<>>
    /\ lastArg = <<>>
    /\ lastOp = NoOp

\* the queries of the pipeline are the only instances
InstStart ==
    /\ kw_instances = {"kw_query"}
    /\ api_key = [x \in {"kw_query"} |-> "key"]
    /\ actor = "kw_query"

(* ---------------- query.py: to_url and as_request ----------------------- *)
\* a field of a query as a dict entry; v is the text of str(value)
Field(name, text) == [k |-> <<name>>, v |-> <<text>>]

\* KeyWordQuery.fields.items()
KeyWordQuery_fields_items(f) ==
    << Field("db", "pubmed"),
       Field("retmax", ToString(f.retmax)),
       Field("retstart", ToString(f.retstart)) >>

\* UIDQuery.fields.items()
UIDQuery_fields_items(f) ==
    << Field("db", "pubmed"),
       Field("rettype", "abstract"),
       Field("retmode", "xml"),
       Field("version", "2.0"),
       Field("retmax", ToString(f.retmax)),
       Field("retstart", ToString(f.retstart)) >>

\* base_url of the two query classes
KeyWordQuery_base_url == <<"https://eutils.ncbi.nlm.nih.gov/entrez/eutils/esearch.fcgi", "?">>
UIDQuery_base_url == <<"https://eutils.ncbi.nlm.nih.gov/entrez/eutils/efetch.fcgi", "?">>

\* kw_conversion[k]
kw_conversion(key) ==
    IF key \in {<<>>, <<" ">>} THEN <<>>
    ELSE IF key = <<"title">> THEN <<"ti">>
    ELSE IF key = <<"author">> THEN <<"au">>
    ELSE key

RECURSIVE Concat(_)
\* ''.join(pieces)
Concat(pieces) ==
    IF pieces = <<>> THEN <<>> ELSE Head(pieces) \o Concat(Tail(pieces))

\* KeyWordQuery._SearchTerms.term: '{term}[{conversion}]' for every value
\* of every field
KeyWordQuery_term(t) ==
    Concat([m \in 1..Len(t.items) |->
              Concat([c \in 1..Len(t.items[m].v) |->
                        t.items[m].v[c] \o <<"[">> \o kw_conversion(t.items[m].k)
                           \o <<"]">>])])

\* KeyWordQuery._SearchTerms.to_url
KeyWordQuery_terms_to_url(t) ==
    <<"term", "=">> \o KeyWordQuery_term(t)
       \o <<"&", "datetype", "=", "pdat">>
       \o <<"&", "mindate", "=">> \o t.mindate
       \o <<"&", "maxdate", "=">> \o t.maxdate

\* KeyWordQuery._SearchTerms.to_dict
KeyWordQuery_to_dict(t) ==
    << [k |-> <<"term">>, v |-> KeyWordQuery_term(t)],
       Field("datetype", "pdat"),
       [k |-> <<"mindate">>, v |-> t.mindate],
       [k |-> <<"maxdate">>, v |-> t.maxdate] >>

\* UIDQuery._SearchTerms.to_dict
UIDQuery_to_dict(ids) == << [k |-> <<"id">>, v |-> UIDQuery_to_url(ids).val] >>

\* Query.to_url: the first element of the pair returned
Query_to_url(base_url, terms_url, items, key) ==
    base_url \o terms_url \o <<"&">>
       \o str_join("&", [m \in 1..Len(items) |->
                           items[m].k \o <<"=">> \o items[m].v])
       \o (IF key # "None" THEN <<"&", "api_key", "=", key>> ELSE <<>>)

RECURSIVE DictUpdate(_, _)
\* dict.update
DictUpdate(d, entries) ==
    IF entries = <<>> THEN d
    ELSE DictUpdate(DictSet(d, Head(entries).k, Head(entries).v), Tail(entries))

\* Query.as_request: the parameter map handed to the request function
Query_as_request(items, terms_dict, key) ==
    DictUpdate(DictUpdate(items, terms_dict),
               IF key # "None" THEN <<Field("api_key", key)>> ELSE <<>>)

(* ------------------------------- Init ---------------------------------- *)
\* After Pipeline.__init__: both queries constructed with retstart=0, the
\* class-level defaults of retmax in place, no identifiers loaded yet.
InitPipeline ==
    /\ kw_fields = [retmax |-> UID_RETMAX, retstart |-> 0,
                    retstart_py |-> "int"]
    /\ uid_fields = [retmax |-> SUMMARY_RETMAX, retstart |-> 0,
                     retstart_py |-> "int"]
    /\ uid_loaded = FALSE
    /\ uid_terms = 0
    /\ pc = "idle"
    /\ stage = "outer"
    /\ n = 0
    /\ save_folder = ""
    /\ i = 0
    /\ j = 0
    /\ outerPages = 0
    /\ innerPages = 0
    /\ elapsed = 0
    /\ err = NoErr
    /\ available \in AvailValues
    /\ lastRequest = NoRequest
    /\ lastStatus = 0
    /\ reqCount = 0
    /\ outerCount = 0
    /\ innerCount = 0
    /\ slots = 0
    /\ lastGap = 0
    /\ lastSleepArg = -1
    /\ idsTotal = 0
    /\ recordsTotal = 0
    /\ saveCalls = 0
    /\ store = [uids |-> NoFile, summaries |-> NoFile]
    /\ uid_from = -1

\* Pipeline(kw) has loaded the search terms kw into its KeyWordQuery
PipelineTerms == KeyWordQuery_SearchTerms(KwDefault).val

Init ==
    /\ InitPipeline
    /\ SoupStart(<<>>)
    /\ StoreStart(PipelineTerms)
    /\ InstStart

(* ----------------------- Pipeline.request, by step --------------------- *)
\* lines 67-73: set both page sizes, read the clock, evaluate the outer range
Request(nn, folder) ==
    /\ UNCHANGED <<soupVars, storeVars, instVars>>
    /\ pc = "idle"
    /\ n' = nn
    /\ save_folder' = folder
    /\ kw_fields' = [kw_fields EXCEPT
                        !.retmax = KeyWordQuery_ret_max(n_or_max(nn, UID_RETMAX))]
    /\ uid_fields' = [uid_fields EXCEPT
                        !.retmax = UIDQuery_ret_max(n_or_max(nn, SUMMARY_RETMAX))]
    /\ elapsed' = 0
    /\ outerPages' = OuterRange(nn)
    /\ i' = 0
    /\ stage' = "outer"
    /\ pc' = IF OuterRange(nn) > 0 THEN "check" ELSE "done"
    /\ UNCHANGED <<uid_loaded, uid_terms, j, innerPages, err, available,
                   lastRequest, lastStatus, reqCount, outerCount, innerCount,
                   slots, lastGap, lastSleepArg, idsTotal, recordsTotal,
                   saveCalls, store, uid_from>>

\* lines 75 and 87: the first read of the clock decides whether to wait
PaceCheck ==
    /\ UNCHANGED <<soupVars, storeVars, instVars>>
    /\ pc = "check"
    /\ \E d \in ReadTicks :
         /\ elapsed' = elapsed + d
         /\ pc' = IF NeedsWait(elapsed + d) THEN "sleep" ELSE "grant"
    /\ UNCHANGED <<queryVars, stage, n, save_folder, i, j, outerPages,
                   innerPages, err, available, lastRequest, lastStatus,
                   reqCount, outerCount, innerCount, slots, lastGap,
                   lastSleepArg, idsTotal, recordsTotal, saveCalls, store,
                   uid_from>>

\* lines 77 and 89: a second read of the clock gives the sleep argument;
\* time.sleep raises ValueError on a negative argument and otherwise
\* returns no earlier than asked
PaceSleep ==
    /\ UNCHANGED <<soupVars, storeVars, instVars>>
    /\ pc = "sleep"
    /\ \E d \in ReadTicks, o \in Overshoots :
         LET arg == SleepArg(elapsed + d) IN
         /\ lastSleepArg' = arg
         /\ IF arg < 0
              THEN /\ pc' = "raised"
                   /\ err' = [kind |-> "ValueError", request |-> NoRequest,
                              response |-> 0]
                   /\ elapsed' = elapsed + d
              ELSE /\ pc' = "grant"
                   /\ err' = err
                   /\ elapsed' = elapsed + d + arg + o
    /\ UNCHANGED <<queryVars, stage, n, save_folder, i, j, outerPages,
                   innerPages, available, lastRequest, lastStatus, reqCount,
                   outerCount, innerCount, slots, lastGap, idsTotal,
                   recordsTotal, saveCalls, store, uid_from>>

\* lines 78 and 90: prev_time = time.monotonic()
Grant ==
    /\ UNCHANGED <<soupVars, storeVars, instVars>>
    /\ pc = "grant"
    /\ \E d \in ReadTicks :
         /\ lastGap' = elapsed + d
         /\ elapsed' = 0
    /\ slots' = slots + 1
    /\ pc' = "request"
    /\ UNCHANGED <<queryVars, stage, n, save_folder, i, j, outerPages,
                   innerPages, err, available, lastRequest, lastStatus,
                   reqCount, outerCount, innerCount, lastSleepArg, idsTotal,
                   recordsTotal, saveCalls, store, uid_from>>

\* the exception of Pipeline._request line 44, re-raised by line 97 with the
\* same response and request
ConnectionError(req, status) ==
    [kind |-> "ConnectionError", request |-> req, response |-> status]

\* lines 79-85: set the cursor, issue the identifier search, save the soup
\* when a folder is given (UIDSoup.save ends in KeyError: soups.py line 156
\* deletes the key UIDQuery.query_key, which is None, from the fields),
\* load the identifiers into the UIDQuery, evaluate the inner range
OuterRequest ==
    /\ UNCHANGED <<soupVars, storeVars, instVars>>
    /\ pc = "request"
    /\ stage = "outer"
    /\ \E status \in Statuses, dur \in Durations :
         LET start == Cursor(i, kw_fields.retmax)
             req == [stage |-> "outer", retstart |-> start,
                     retmax |-> kw_fields.retmax,
                     method |-> KeyWordQuery_req_function, ids |-> 0]
             got == ServerPage(available, start, kw_fields.retmax)
         IN
         /\ kw_fields' = [kw_fields EXCEPT !.retstart = start,
                                          !.retstart_py = "str"]
         /\ lastRequest' = req
         /\ lastStatus' = status
         /\ elapsed' = dur
         /\ reqCount' = reqCount + 1
         /\ outerCount' = outerCount + 1
         /\ IF IsFailure(status)
              THEN /\ pc' = "raised"
                   /\ err' = ConnectionError(req, status)
                   /\ UNCHANGED <<uid_loaded, uid_terms, innerPages, i, j,
                                  stage, innerCount, idsTotal, saveCalls,
                                  store, uid_from>>
              ELSE /\ idsTotal' = idsTotal + got
                   /\ IF save_folder # ""
                        THEN /\ pc' = "raised"
                             /\ err' = [kind |-> "KeyError",
                                        request |-> NoRequest, response |-> 0]
                             /\ saveCalls' = saveCalls + 1
                             /\ store' = UIDSoup_save(store, got)
                             /\ UNCHANGED <<uid_loaded, uid_terms, innerPages,
                                            i, j, stage, innerCount, uid_from>>
                        ELSE /\ uid_loaded' = TRUE
                             /\ uid_terms' = got
                             /\ uid_from' = i
                             /\ UNCHANGED <<saveCalls, store>>
                             /\ innerPages' = InnerRange(kw_fields.retmax)
                             /\ innerCount' = 0
                             /\ j' = 0
                             /\ err' = err
                             /\ IF InnerRange(kw_fields.retmax) > 0
                                  THEN /\ stage' = "inner"
                                       /\ i' = i
                                       /\ pc' = "check"
                                  ELSE /\ stage' = "outer"
                                       /\ i' = i + 1
                                       /\ pc' = IF i + 1 < outerPages
                                                  THEN "check" ELSE "done"
    /\ lastGap' = 0
    /\ lastSleepArg' = -1
    /\ UNCHANGED <<uid_fields, n, save_folder, outerPages, available, slots,
                   recordsTotal>>

\* lines 91-94: set the cursor, issue the record retrieval, save the soup
\* when a folder is given (pubmed_summary.h5 is opened with mode 'w'), go on
\* with the next inner page, the next outer page or return
InnerRequest ==
    /\ UNCHANGED <<soupVars, storeVars, instVars>>
    /\ pc = "request"
    /\ stage = "inner"
    /\ \E status \in Statuses, dur \in Durations :
         LET start == Cursor(j, uid_fields.retmax)
             newFields == [uid_fields EXCEPT !.retstart = start,
                                             !.retstart_py = "str"]
             req == [stage |-> "inner", retstart |-> start,
                     retmax |-> uid_fields.retmax,
                     method |-> UIDQuery_req_function(newFields),
                     ids |-> uid_terms]
             got == ServerPage(uid_terms, start, uid_fields.retmax)
         IN
         /\ uid_fields' = newFields
         /\ lastRequest' = req
         /\ lastStatus' = status
         /\ elapsed' = dur
         /\ reqCount' = reqCount + 1
         /\ innerCount' = innerCount + 1
         /\ IF IsFailure(status)
              THEN /\ pc' = "raised"
                   /\ err' = ConnectionError(req, status)
                   /\ UNCHANGED <<i, j, stage, recordsTotal, saveCalls,
                                  store>>
              ELSE /\ recordsTotal' = recordsTotal + got
                   /\ err' = err
                   /\ IF save_folder # ""
                        THEN /\ saveCalls' = saveCalls + 1
                             /\ store' = SummarySoup_save(store, got)
                        ELSE UNCHANGED <<saveCalls, store>>
                   /\ IF j + 1 < innerPages
                        THEN /\ j' = j + 1
                             /\ pc' = "check"
                             /\ UNCHANGED <<i, stage>>
                        ELSE /\ j' = j + 1
                             /\ i' = i + 1
                             /\ stage' = "outer"
                             /\ pc' = IF i + 1 < outerPages
                                        THEN "check" ELSE "done"
    /\ lastGap' = 0
    /\ lastSleepArg' = -1
    /\ UNCHANGED <<kw_fields, uid_loaded, uid_terms, n, save_folder,
                   outerPages, innerPages, available, outerCount, slots,
                   idsTotal, uid_from>>

vars == <<queryVars, pipeVars, soupVars, storeVars, instVars>>

Next ==
    \/ \E nn \in NValues, folder \in SaveFolders : Request(nn, folder)
    \/ PaceCheck
    \/ PaceSleep
    \/ Grant
    \/ OuterRequest
    \/ InnerRequest

Spec == Init /\ [][Next]_vars

(* ------------------- query.py used by a direct caller ------------------ *)
\* KeyWordQuery.ret_max = val
KeyWordQuery_SetRetMax(val) ==
    /\ UNCHANGED <<soupVars, storeVars, kw_instances, api_key>>
    /\ \E x \in kw_instances : actor' = x
    /\ pc = "idle"
    /\ kw_fields' = [kw_fields EXCEPT !.retmax = KeyWordQuery_ret_max(val)]
    /\ UNCHANGED <<uid_fields, uid_loaded, uid_terms, pipeVars>>

\* UIDQuery.ret_max = val
UIDQuery_SetRetMax(val) ==
    /\ UNCHANGED <<soupVars, storeVars, instVars>>
    /\ pc = "idle"
    /\ uid_fields' = [uid_fields EXCEPT !.retmax = UIDQuery_ret_max(val)]
    /\ UNCHANGED <<kw_fields, uid_loaded, uid_terms, pipeVars>>

\* Query.ret_start = val, on the KeyWordQuery: stored as given
KeyWordQuery_SetRetStart(val) ==
    /\ UNCHANGED <<soupVars, storeVars, kw_instances, api_key>>
    /\ \E x \in kw_instances : actor' = x
    /\ pc = "idle"
    /\ kw_fields' = [kw_fields EXCEPT !.retstart = val,
                                     !.retstart_py = "str"]
    /\ UNCHANGED <<uid_fields, uid_loaded, uid_terms, pipeVars>>

\* Query.ret_start = val, on the UIDQuery: stored as given
UIDQuery_SetRetStart(val) ==
    /\ UNCHANGED <<soupVars, storeVars, instVars>>
    /\ pc = "idle"
    /\ uid_fields' = [uid_fields EXCEPT !.retstart = val,
                                       !.retstart_py = "str"]
    /\ UNCHANGED <<kw_fields, uid_loaded, uid_terms, pipeVars>>

\* UIDQuery.load(terms=...) with k numeric identifiers
UIDQuery_Load(k) ==
    /\ UNCHANGED <<soupVars, storeVars, instVars>>
    /\ pc = "idle"
    /\ uid_loaded' = TRUE
    /\ uid_terms' = k
    /\ UNCHANGED <<kw_fields, uid_fields, pipeVars>>

InitQuery == Init /\ available = 0

NextQuery ==
    \/ \E val \in SetterValues : KeyWordQuery_SetRetMax(val)
    \/ \E val \in SetterValues : UIDQuery_SetRetMax(val)
    \/ \E val \in SetterValues : KeyWordQuery_SetRetStart(val)
    \/ \E val \in SetterValues : UIDQuery_SetRetStart(val)
    \/ \E k \in TermCounts : UIDQuery_Load(k)

SpecQuery == InitQuery /\ [][NextQuery]_vars

(* ----------------------- Query.load and Query.save --------------------- *)
\* KeyWordQuery.load(terms=arg): search_terms is assigned when
\* _SearchTerms(arg) returns
KeyWordQuery_Load(arg) ==
    /\ pc = "idle"
    /\ LET res == KeyWordQuery_SearchTerms(arg) IN
       /\ kw_search_terms' = IF res.exc = "" THEN res.val ELSE kw_search_terms
       /\ lastOp' = [query |-> "kw", op |-> "load_terms", exc |-> res.exc]
    /\ lastArg' = arg
    /\ UNCHANGED <<uid_search_terms, kw_file, uid_file, kw_saved, uid_saved>>
    /\ UNCHANGED <<queryVars, pipeVars, soupVars, instVars>>

\* KeyWordQuery.save(path) with a path of extension ext. txt and pickle:
\* the file is opened, then saveable_format is read and written. h5:
\* _save_h5 writes the fields as attributes (v.encode fails on the int that
\* the constructor stored for retstart) and then walks the items of the
\* file it has just created, so no dataset is made. Any other extension
\* reaches self.extensions, which no class defines.
KeyWordQuery_Save(ext) ==
    /\ pc = "idle"
    /\ IF FormOf(ext) \in {"txt", "pickle"}
         THEN IF kw_search_terms.set
                THEN /\ kw_file' = DataFile(FormOf(ext), TRUE,
                             KeyWordQuery_saveable_format(kw_search_terms).val)
                     /\ kw_saved' = kw_search_terms
                     /\ lastOp' = [query |-> "kw", op |-> "save", exc |-> ""]
                ELSE /\ kw_file' = DataFile(FormOf(ext), FALSE, <<>>)
                     /\ kw_saved' = kw_search_terms
                     /\ lastOp' = [query |-> "kw", op |-> "save",
                                   exc |-> "AttributeError"]
         ELSE IF FormOf(ext) = "h5"
           THEN /\ kw_file' = [form |-> "h5", written |-> TRUE, data |-> <<>>,
                               attrs |-> [retmax |-> kw_fields.retmax,
                                          retstart |-> kw_fields.retstart,
                                          has_retstart |->
                                             kw_fields.retstart_py = "str"]]
                /\ kw_saved' = kw_search_terms
                /\ lastOp' = [query |-> "kw", op |-> "save",
                              exc |-> IF kw_fields.retstart_py = "str"
                                        THEN "" ELSE "AttributeError"]
           ELSE /\ lastOp' = [query |-> "kw", op |-> "save",
                              exc |-> "AttributeError"]
                /\ UNCHANGED <<kw_file, kw_saved>>
    /\ UNCHANGED <<kw_search_terms, uid_search_terms, uid_file, uid_saved,
                   lastArg>>
    /\ UNCHANGED <<queryVars, pipeVars, soupVars, instVars>>

\* KeyWordQuery.load(path=...) on the file saved before. txt: the bytes
\* read; pickle: the bytes object unpickled (EOFError on an empty file);
\* both are split into rows. h5: _load_h5 copies the attributes into the
\* fields and returns the empty list it started with.
KeyWordQuery_LoadPath ==
    /\ pc = "idle"
    /\ kw_file.form # "none"
    /\ IF kw_file.form = "h5"
         THEN /\ kw_search_terms' = KeyWordQuery_SearchTerms(<<>>).val
              /\ kw_fields' =
                   [retmax |-> kw_file.attrs.retmax,
                    retstart |-> IF kw_file.attrs.has_retstart
                                   THEN kw_file.attrs.retstart
                                   ELSE kw_fields.retstart,
                    retstart_py |-> IF kw_file.attrs.has_retstart
                                      THEN "str" ELSE kw_fields.retstart_py]
              /\ lastOp' = [query |-> "kw", op |-> "load_path", exc |-> ""]
         ELSE IF kw_file.form = "pickle" /\ ~kw_file.written
           THEN /\ lastOp' = [query |-> "kw", op |-> "load_path",
                              exc |-> "EOFError"]
                /\ UNCHANGED <<kw_search_terms, kw_fields>>
           ELSE LET res == KeyWordQuery_SearchTerms(ReadRows(kw_file.data)) IN
                /\ kw_search_terms' =
                     IF res.exc = "" THEN res.val ELSE kw_search_terms
                /\ lastOp' = [query |-> "kw", op |-> "load_path",
                              exc |-> res.exc]
                /\ kw_fields' = kw_fields
    /\ UNCHANGED <<uid_search_terms, kw_file, uid_file, kw_saved, uid_saved,
                   lastArg>>
    /\ UNCHANGED <<uid_fields, uid_loaded, uid_terms, pipeVars, soupVars,
                   instVars>>

(* ------------------------ instances of a query ------------------------- *)
\* names of KeyWordQuery instances, and the api_key arguments
InstanceNames == {"kw_query", "other"}
ApiKeys == {"key", "None"}

\* retstart arguments of the constructor
InitRetStarts == {0, SUMMARY_RETMAX}

\* x = KeyWordQuery(retstart, key): Query.__init__ stores retstart, as
\* given, in the dictionary fields of the class, and api_key in the instance
KeyWordQuery_Init(x, retstart, key) ==
    /\ pc = "idle"
    /\ kw_fields' = [kw_fields EXCEPT !.retstart = retstart,
                                     !.retstart_py = "int"]
    /\ kw_instances' = kw_instances \cup {x}
    /\ api_key' = [y \in kw_instances \cup {x} |->
                     IF y = x THEN key ELSE api_key[y]]
    /\ actor' = x
    /\ UNCHANGED <<uid_fields, uid_loaded, uid_terms, pipeVars, soupVars,
                   storeVars>>

InitInst == Init /\ available = 0

NextInst ==
    \/ \E x \in InstanceNames, r \in InitRetStarts, key \in ApiKeys :
          KeyWordQuery_Init(x, r, key)
    \/ \E val \in SetterValues : KeyWordQuery_SetRetStart(val)
    \/ \E val \in SetterValues : KeyWordQuery_SetRetMax(val)

SpecInst == InitInst /\ [][NextInst]_vars

(* --------------------- the save methods of the soups ------------------- *)
\* UIDSoup(response).save(folder) on a response of k identifiers: the
\* dataset is written, then line 156 raises KeyError
SinkUIDSoup(k) ==
    /\ pc = "idle"
    /\ saveCalls < MaxSaves
    /\ saveCalls' = saveCalls + 1
    /\ store' = UIDSoup_save(store, k)
    /\ idsTotal' = idsTotal + k
    /\ err' = [kind |-> "KeyError", request |-> NoRequest, response |-> 0]
    /\ UNCHANGED <<pc, stage, n, save_folder, i, j, outerPages, innerPages,
                   elapsed, available, lastRequest, lastStatus, reqCount,
                   outerCount, innerCount, slots, lastGap, lastSleepArg,
                   recordsTotal, uid_from>>
    /\ UNCHANGED <<queryVars, soupVars, storeVars, instVars>>

\* SummarySoup(response).save(folder) on a response of k records
SinkSummarySoup(k) ==
    /\ pc = "idle"
    /\ saveCalls < MaxSaves
    /\ saveCalls' = saveCalls + 1
    /\ store' = SummarySoup_save(store, k)
    /\ recordsTotal' = recordsTotal + k
    /\ err' = NoErr
    /\ UNCHANGED <<pc, stage, n, save_folder, i, j, outerPages, innerPages,
                   elapsed, available, lastRequest, lastStatus, reqCount,
                   outerCount, innerCount, slots, lastGap, lastSleepArg,
                   idsTotal, uid_from>>
    /\ UNCHANGED <<queryVars, soupVars, storeVars, instVars>>

InitSink == Init /\ available = 0

NextSink ==
    \/ \E k \in SoupSizes : SinkUIDSoup(k)
    \/ \E k \in SoupSizes : SinkSummarySoup(k)

SpecSink == InitSink /\ [][NextSink]_vars

InitKwStore ==
    /\ InitPipeline
    /\ available = 0
    /\ SoupStart(<<>>)
    /\ StoreStart(NoTerms)
    /\ InstStart

NextKwStore ==
    \/ \E arg \in KwArgs : KeyWordQuery_Load(arg)
    \/ \E ext \in KwExtensions : KeyWordQuery_Save(ext)
    \/ KeyWordQuery_LoadPath
    \/ \E val \in StoreSetterValues : KeyWordQuery_SetRetStart(val)

SpecKwStore == InitKwStore /\ [][NextKwStore]_vars

\* UIDQuery.load(terms=terms)
UIDQuery_LoadTerms(terms) ==
    /\ pc = "idle"
    /\ LET res == UIDQuery_SearchTerms(terms) IN
       /\ uid_search_terms' = IF res.exc = "" THEN res.val ELSE uid_search_terms
       /\ uid_loaded' = (uid_loaded \/ res.exc = "")
       /\ uid_terms' = IF res.exc = "" THEN Len(res.val) ELSE uid_terms
       /\ lastOp' = [query |-> "uid", op |-> "load_terms", exc |-> res.exc]
    /\ lastArg' = terms
    /\ UNCHANGED <<kw_search_terms, kw_file, uid_file, kw_saved, uid_saved>>
    /\ UNCHANGED <<kw_fields, uid_fields, pipeVars, soupVars, instVars>>

\* UIDQuery.save(path) with a path of extension ext
UIDQuery_Save(ext) ==
    /\ pc = "idle"
    /\ IF FormOf(ext) \in {"txt", "pickle"}
         THEN IF uid_loaded
                THEN /\ uid_file' = DataFile(FormOf(ext), TRUE,
                             UIDQuery_saveable_format(uid_search_terms).val)
                     /\ uid_saved' = uid_search_terms
                     /\ lastOp' = [query |-> "uid", op |-> "save", exc |-> ""]
                ELSE /\ uid_file' = DataFile(FormOf(ext), FALSE, <<>>)
                     /\ uid_saved' = uid_search_terms
                     /\ lastOp' = [query |-> "uid", op |-> "save",
                                   exc |-> "AttributeError"]
         ELSE /\ lastOp' = [query |-> "uid", op |-> "save",
                            exc |-> "AttributeError"]
              /\ UNCHANGED <<uid_file, uid_saved>>
    /\ UNCHANGED <<kw_search_terms, uid_search_terms, kw_file, kw_saved,
                   lastArg>>
    /\ UNCHANGED <<queryVars, pipeVars, soupVars, instVars>>

\* UIDQuery.load(path=...) on the file saved before: every row of the file
\* is a list, and _SearchTerms calls decode on each of them
UIDQuery_LoadPath ==
    /\ pc = "idle"
    /\ uid_file.form # "none"
    /\ IF uid_file.form = "pickle" /\ ~uid_file.written
         THEN /\ lastOp' = [query |-> "uid", op |-> "load_path",
                            exc |-> "EOFError"]
              /\ UNCHANGED <<uid_search_terms, uid_loaded, uid_terms>>
         ELSE LET rows == ReadRows(uid_file.data)
                  res == UIDQuery_SearchTerms(
                             [r \in 1..Len(rows) |-> PyList(rows[r])])
              IN
              /\ uid_search_terms' =
                   IF res.exc = "" THEN res.val ELSE uid_search_terms
              /\ uid_loaded' = (uid_loaded \/ res.exc = "")
              /\ uid_terms' = IF res.exc = "" THEN Len(res.val) ELSE uid_terms
              /\ lastOp' = [query |-> "uid", op |-> "load_path",
                            exc |-> res.exc]
    /\ UNCHANGED <<kw_search_terms, kw_file, uid_file, kw_saved, uid_saved,
                   lastArg>>
    /\ UNCHANGED <<kw_fields, uid_fields, pipeVars, soupVars, instVars>>

InitUidStore == InitKwStore

NextUidStore ==
    \/ \E terms \in UidArgs : UIDQuery_LoadTerms(terms)
    \/ \E ext \in UidExtensions : UIDQuery_Save(ext)
    \/ UIDQuery_LoadPath

SpecUidStore == InitUidStore /\ [][NextUidStore]_vars

(* ------------------ soups.py: the generator properties ----------------- *)
\* one next() on a single_generator property (abstract, uid, doi, pmc,
\* title, journal): __iter__ skips to the next valid article, the body
\* yields one value for it
SingleNext ==
    /\ single_state = "running"
    /\ LET k == NextArticle(doc, single_pos) IN
         IF k = 0
           THEN /\ single_state' = "exhausted"
                /\ single_pos' = Len(doc)
                /\ single_out' = single_out
           ELSE /\ single_pos' = k
                /\ IF SingleRaises(doc[k])
                     THEN /\ single_state' = "TypeError"
                          /\ single_out' = single_out
                     ELSE /\ single_state' = single_state
                          /\ single_out' = Append(single_out, SingleValue(doc[k]))
    /\ UNCHANGED <<doc, nested_pos, nested_out, nested_state, queryVars,
                   pipeVars, storeVars, instVars>>

\* one next() on a nested_generator property (authors, date, grant)
NestedNext ==
    /\ nested_state = "running"
    /\ LET k == NextArticle(doc, nested_pos) IN
         IF k = 0
           THEN /\ nested_state' = "exhausted"
                /\ nested_pos' = Len(doc)
                /\ nested_out' = nested_out
           ELSE /\ nested_pos' = k
                /\ IF NestedRaises(doc[k])
                     THEN /\ nested_state' = "AttributeError"
                          /\ nested_out' = nested_out
                     ELSE /\ nested_state' = nested_state
                          /\ nested_out' = Append(nested_out, NestedValue(doc[k]))
    /\ UNCHANGED <<doc, single_pos, single_out, single_state, queryVars,
                   pipeVars, storeVars, instVars>>

InitSoup ==
    /\ InitPipeline
    /\ available = 0
    /\ \E d \in Docs : SoupStart(d)
    /\ StoreStart(PipelineTerms)
    /\ InstStart

NextSoup == SingleNext \/ NestedNext

SpecSoup == InitSoup /\ [][NextSoup]_vars

(* ------------------------------- claims -------------------------------- *)

\* C1: a run of Pipeline.request(n), n >= 1, evaluates an outer range of
\* ceil(n / min(n, UID_RETMAX)) pages, never issues more identifier-search
\* requests than that, and has issued exactly that many when it returns
\* (every response was then successful).
C1_OuterPageCount ==
    /\ pc # "idle" => outerPages = CeilDiv(n, Min(n, UID_RETMAX))
    /\ pc # "idle" => outerCount <= CeilDiv(n, Min(n, UID_RETMAX))
    /\ pc = "done" => outerCount = CeilDiv(n, Min(n, UID_RETMAX))

\* C1 witness: a run for n = UID_RETMAX + 1 has returned after 2 outer requests
C1_Witness == pc = "done" /\ n = UID_RETMAX + 1 /\ outerCount = 2

\* the inner loop of a batch has run to its end
BatchFinished ==
    /\ uid_loaded
    /\ stage = "outer"
    /\ i >= 1
    /\ pc \in {"check", "sleep", "grant", "request", "done"}

\* C2: once the inner loop of an identifier batch has ended, the number of
\* record-retrieval requests issued for the batch is ceil(batchSize / 500),
\* batchSize being the number of identifiers the batch holds.
C2_InnerPagesMatchBatch ==
    BatchFinished => innerCount = CeilDiv(uid_terms, SUMMARY_RETMAX)

\* C3: every slot after the first is granted at least MIN_INTERVAL after the
\* slot before it, and every request is issued on a slot of its own, granted
\* by the pacing step that precedes it.
C3_MinInterval ==
    /\ (pc = "request" /\ slots >= 2) => lastGap >= MIN_INTERVAL
    /\ slots = reqCount + (IF pc = "request" THEN 1 ELSE 0)

\* C3 witness: an inner-stage slot granted after time.sleep was called
C3_Witness ==
    /\ pc = "request"
    /\ stage = "inner"
    /\ slots >= 2
    /\ lastSleepArg > 0

\* C4: a response with a status other than 200 ends the run at once with a
\* ConnectionError that carries the failed request and its response, and
\* no request is issued once the run has ended that way.
C4_AbortOnFailure ==
    /\ []((reqCount > 0 /\ lastStatus # HTTP_OK) =>
            (/\ pc = "raised"
             /\ err = [kind |-> "ConnectionError", request |-> lastRequest,
                       response |-> lastStatus]))
    /\ [][pc = "raised" => (pc' = "raised" /\ reqCount' = reqCount)]_vars

\* C4 witness: the second inner request of a batch was answered 404
C4_Witness ==
    /\ pc = "raised"
    /\ err.kind = "ConnectionError"
    /\ err.response = 404
    /\ err.request.stage = "inner"
    /\ err.request.retstart = SUMMARY_RETMAX

\* C5: a UIDQuery holding k identifiers selects POST exactly when k >= 200.
C5_PostIffManyIds ==
    uid_loaded =>
        (UIDQuery_req_function(uid_fields) = "POST"
            <=> uid_terms >= POST_THRESHOLD)

\* C6: the stored page sizes lie in [0, maxPageSize].
C6_PageSizeInRange ==
    /\ kw_fields.retmax \in 0..UID_RETMAX
    /\ uid_fields.retmax \in 0..SUMMARY_RETMAX

(* --------------------- claims on the extraction ------------------------ *)
\* a top-level article element whose citation status is "MEDLINE"
IsMedline(child) == child.kind = "Tag" /\ child.status = "MEDLINE"

\* the document-order subsequence of such articles
MedlineArticles == SelectSeq(doc, IsMedline)

\* how many of the first m children are such articles
MedlineUpTo(m) == Len(SelectSeq(SubSeq(doc, 1, m), IsMedline))

Rows(authors) ==
    [a \in 1..Len(authors) |->
        [lastname |-> authors[a].lastname, forename |-> authors[a].forename]]

\* C8 as claimed: the authors value of an article with k author tags is a
\* list of k per-author mappings, each with one author's lastname and
\* forename.
C8_PerAuthorMappings ==
    \A k \in 1..Len(nested_out) :
        /\ nested_out[k].py = "list"
        /\ nested_out[k].val = Rows(MedlineArticles[k].author)

\* the texts of the children named key of the first m author tags
RECURSIVE ColumnUpTo(_, _, _)
ColumnUpTo(authors, key, m) ==
    IF m = 0 THEN <<>>
    ELSE ColumnUpTo(authors, key, m - 1) \o authors[m][key]

\* C8 amended: every value the authors field yields is one mapping from each
\* child name to the texts of that child over all author tags in document
\* order; for (Doe, John), (Smith, Jane) it is
\* {lastname: [Doe, Smith], forename: [John, Jane], affiliation: []}.
C8_OneMappingOfColumns ==
    \A k \in 1..Len(nested_out) :
        LET v == nested_out[k]
            au == MedlineArticles[k].author
        IN /\ v.py = "dict"
           /\ DOMAIN v.val = AuthorKeys
           /\ \A key \in AuthorKeys : v.val[key] = ColumnUpTo(au, key, Len(au))
           /\ au = <<Doe, Smith>> =>
                 /\ v.val["lastname"] = <<"Doe", "Smith">>
                 /\ v.val["forename"] = <<"John", "Jane">>
                 /\ v.val["affiliation"] = <<>>

\* C8 witness: the authors value of an article by Doe and Smith was yielded
C8_Witness ==
    \E k \in 1..Len(nested_out) : MedlineArticles[k].author = <<Doe, Smith>>

\* C9: the per-child lists of every authors mapping have one length.
C9_EqualLengths ==
    \A k \in 1..Len(nested_out) :
        \A k1 \in AuthorKeys, k2 \in AuthorKeys :
            Len(nested_out[k].val[k1]) = Len(nested_out[k].val[k2])

\* the texts joined by one space, the last text set behind the others
RECURSIVE JoinBack(_)
JoinBack(li) ==
    IF Len(li) = 0 THEN ""
    ELSE IF Len(li) = 1 THEN li[1]
    ELSE JoinBack(SubSeq(li, 1, Len(li) - 1)) \o " " \o li[Len(li)]

\* C10: a single-lookup field gives one scalar for every MEDLINE article and
\* never an error: the empty value when nothing matches, else the texts of
\* the matching elements joined by single spaces.
C10_ScalarPerArticle ==
    /\ single_state # "TypeError"
    /\ \A k \in 1..Len(single_out) :
           single_out[k] = JoinBack(MedlineArticles[k].found)

(* ---------------------- claims on the run totals ------------------------ *)
\* C15: over a run of Pipeline.request(n) neither the identifiers nor the
\* article summaries received exceed n.
C15_AtMostN ==
    pc # "idle" => (idsTotal <= n /\ recordsTotal <= n)


(* ------------------- claims on the order of requests ------------------- *)
\* C18: every request of a run is the next one of the nested order: an
\* identifier search is page number "searches issued so far", at cursor
\* page * page size, and is issued only when every record page of the batch
\* before it has been requested; a record retrieval is page number
\* "retrievals issued for this batch", at cursor page * 500, and carries the
\* identifiers of the most recent identifier search.
C18_NestedOrder ==
    [][reqCount' # reqCount =>
         LET r == lastRequest' IN
         IF r.stage = "outer"
           THEN /\ outerCount' = outerCount + 1
                /\ r.retstart = outerCount * r.retmax
                /\ outerCount > 0 => innerCount = innerPages
                /\ outerCount < outerPages
           ELSE /\ innerCount' = innerCount + 1
                /\ outerCount' = outerCount
                /\ r.retstart = innerCount * SUMMARY_RETMAX
                /\ innerCount < innerPages
                /\ uid_from = outerCount - 1
                /\ r.ids = uid_terms]_vars

\* the second record page of the second batch has been requested
C18_Witness ==
    /\ outerCount = 2
    /\ lastRequest.stage = "inner"
    /\ lastRequest.retstart = SUMMARY_RETMAX
    /\ uid_from = 1
    /\ lastStatus = HTTP_OK

(* --------------------- claims on the persistence sink ------------------ *)
\* C20: a soup handed to the sink is saved without error (the run is not
\* ended by the sink), and with an empty save folder nothing is handed to
\* the sink.
C20_SaveWithoutError ==
    /\ save_folder = "" => saveCalls = 0
    /\ saveCalls > 0 => err.kind # "KeyError"


(* ------------------ claims on search terms, load and save -------------- *)
\* the inputs with their spaces removed that are non-empty and hold digits
\* only, in the order of the input
RECURSIVE DigitItems(_)
DigitItems(terms) ==
    IF terms = <<>> THEN <<>>
    ELSE LET x == SelectSeq(Head(terms).val, LAMBDA c : c # " ")
         IN (IF x # <<>> /\ {x[k] : k \in 1..Len(x)} \subseteq DigitWords
               THEN <<x>> ELSE <<>>) \o DigitItems(Tail(terms))

\* C17: an identifier set built from a sequence of bytes holds, in input
\* order and with duplicates kept, the inputs that consist of digits only
\* once their spaces are removed (held in that space-free form); its
\* saveable format and its URL fragment are the same characters, and cut
\* at the commas they give back the identifiers in their order.
C17_DigitIdentifiers ==
    (lastOp.query = "uid" /\ lastOp.op = "load_terms" /\ lastOp.exc = "") =>
       /\ uid_search_terms = DigitItems(lastArg)
       /\ UIDQuery_saveable_format(uid_search_terms).val =
             UIDQuery_to_url(uid_search_terms).val
       /\ uid_search_terms # <<>> =>
             bytes_split(UIDQuery_saveable_format(uid_search_terms).val, ",")
                = uid_search_terms
       /\ uid_search_terms = <<>> =>
             UIDQuery_saveable_format(uid_search_terms).val = <<>>

\* identifiers were built from inputs with spaces, and from inputs with a
\* duplicate and a non-numeric item
C17_Witness ==
    /\ lastOp = [query |-> "uid", op |-> "load_terms", exc |-> ""]
    /\ \/ /\ Len(lastArg) = 3
          /\ lastArg[2].val = <<"2935", " ", "7">>
          /\ uid_search_terms = << <<"28852740">>, <<"2935", "7">>, <<"7", "7">> >>
       \/ /\ Len(lastArg) = 3
          /\ lastArg[2].val = <<"abc">>
          /\ uid_search_terms = << <<"29350911">>, <<"29350911">> >>

\* C11: reloading the .txt file a UIDQuery was saved to succeeds and gives
\* the identifier sequence that was saved.
C11_IdentifierRoundTrip ==
    (/\ lastOp.query = "uid"
     /\ lastOp.op = "load_path"
     /\ uid_file.form = "txt"
     /\ uid_file.written) =>
       /\ lastOp.exc = ""
       /\ uid_search_terms = uid_saved

\* the fields of a term-set with their value lists
Entries(t) == {t.items[m] : m \in 1..Len(t.items)}

\* the same field names, value lists and date bounds
SameTerms(a, b) ==
    /\ Entries(a) = Entries(b)
    /\ a.mindate = b.mindate
    /\ a.maxdate = b.maxdate

\* C12: reloading the .txt or pickle file a keyword term-set was saved to
\* gives a term-set with the same field names, the same value list per
\* field and the same date bounds.
C12_KeywordRoundTrip ==
    (/\ lastOp.query = "kw"
     /\ lastOp.op = "load_path"
     /\ kw_file.form \in {"txt", "pickle"}
     /\ kw_file.written) =>
       /\ lastOp.exc = ""
       /\ SameTerms(kw_search_terms, kw_saved)

\* C13: a KeyWordQuery whose term-set has a field is saved to .h5 without
\* error, and reloading that file gives the fields and values saved.
C13_H5RoundTrip ==
    (/\ lastOp.query = "kw"
     /\ lastOp.op \in {"save", "load_path"}
     /\ kw_file.form = "h5"
     /\ kw_saved.set
     /\ kw_saved.items # <<>>) =>
       /\ lastOp.exc = ""
       /\ lastOp.op = "load_path" => SameTerms(kw_search_terms, kw_saved)

\* a row with a field name outside the recognized ones
HasUnrecognized(arg) ==
    \E r \in 1..Len(arg) : arg[r][1].val \notin Recognized

\* C14: loading keyword terms that name a field outside the recognized set
\* fails with an error.
C14_UnrecognizedRejected ==
    (/\ lastOp.query = "kw"
     /\ lastOp.op = "load_terms"
     /\ HasUnrecognized(lastArg)) => lastOp.exc # ""

\* C16: the saveable format of a keyword term-set is its field lines
\* joined by newlines and nothing else; with the default field and the
\* value shteyn alone it is ' ,shteyn'.
C16_FieldLinesOnly ==
    kw_search_terms.set =>
       /\ KeyWordQuery_saveable_format(kw_search_terms).val =
             str_join("\n", [m \in 1..Len(kw_search_terms.items) |->
                                FieldLine(kw_search_terms.items[m])])
       /\ kw_search_terms.items = <<[k |-> <<>>, v |-> << <<"shteyn">> >>]>> =>
             KeyWordQuery_saveable_format(kw_search_terms).val =
                <<" ", ",", "shteyn">>


(* ----------------------- claims on query instances --------------------- *)
\* C19: constructing an instance, or assigning ret_start or ret_max on one,
\* leaves the cursor, the page size and the api_key of every other
\* instance as they were.
C19_PerInstanceState ==
    [][\A x \in kw_instances :
          x # actor' =>
             /\ kw_fields'.retstart = kw_fields.retstart
             /\ kw_fields'.retmax = kw_fields.retmax
             /\ api_key'[x] = api_key[x]]_vars


(* ------------------------ claims on the pacing step -------------------- *)
\* C22: whenever time.sleep is called in a pacing step (lines 77 and 89),
\* its argument is not negative.
C22_SleepArgNonNegative ==
    (err.kind = "ValueError" \/ lastSleepArg # -1) => lastSleepArg >= 0


Pair(seg) ==
    IF \E p \in 1..Len(seg) : seg[p] = "="
      THEN LET p == CHOOSE q \in 1..Len(seg) :
                       seg[q] = "=" /\ \A o \in 1..(q - 1) : seg[o] # "="
           IN [k |-> SubSeq(seg, 1, p - 1), v |-> SubSeq(seg, p + 1, Len(seg))]
      ELSE [k |-> seg, v |-> <<>>]

\* the name/value pairs a URL encodes: what follows "?", cut at every "&"
UrlPairs(url) ==
    LET segs == bytes_split(bytes_split(url, "?")[2], "&")
    IN {Pair(segs[m]) : m \in 1..Len(segs)}

\* the name/value pairs of a parameter map
MapPairs(d) == {d[m] : m \in 1..Len(d)}

\* for a KeyWordQuery with terms loaded, the URL of to_url and the map of
\* as_request hold the same name/value pairs
KeywordUrlMatchesMap ==
    kw_search_terms.set =>
       \A key \in ApiKeys :
          UrlPairs(Query_to_url(KeyWordQuery_base_url,
                                KeyWordQuery_terms_to_url(kw_search_terms),
                                KeyWordQuery_fields_items(kw_fields), key))
             = MapPairs(Query_as_request(KeyWordQuery_fields_items(kw_fields),
                                         KeyWordQuery_to_dict(kw_search_terms),
                                         key))

\* C23: for a UIDQuery with identifiers loaded, the URL of to_url and the
\* map of as_request hold the same name/value pairs, among them id = the
\* comma-joined identifiers.
C23_UrlMatchesMap ==
    uid_loaded =>
       \A key \in ApiKeys :
          /\ UrlPairs(Query_to_url(UIDQuery_base_url,
                                   UIDQuery_to_url(uid_search_terms).val,
                                   UIDQuery_fields_items(uid_fields), key))
                = MapPairs(Query_as_request(UIDQuery_fields_items(uid_fields),
                                            UIDQuery_to_dict(uid_search_terms),
                                            key))
          /\ [k |-> <<"id">>, v |-> str_join(",", uid_search_terms)]
                \in UrlPairs(Query_to_url(UIDQuery_base_url,
                                   UIDQuery_to_url(uid_search_terms).val,
                                   UIDQuery_fields_items(uid_fields), key))

====
